---- MODULE Spec2Model ----
(***************************************************************************)
(* A model of src/wrapper.rs (protobuf-build): the generator of accessor   *)
(* methods (has_/clear_/set_/get_/mut_/take_) for prost message structs.   *)
(*                                                                         *)
(*   SpecClassify   FieldKind::from_attrs over bounded annotation lists    *)
(*   Spec           one generation pass (generate_from_items and below)    *)
(*   SpecOptional   the accessors generated for an Optional field, run     *)
(*   SpecContainer  the accessors generated for Repeated/Bytes/String, run *)
(*                                                                         *)
(* Text is modelled as tuples of tokens; a literal's token text is the     *)
(* tuple of its characters, so that slicing it is something that can fail. *)
(***************************************************************************)
EXTENDS Integers, Sequences, FiniteSets, TLC

VARIABLES
    \* SpecClassify
    attrs,      \* the field's attribute records given to from_attrs
    kind,       \* <<>> before the call; then <<its result>> (a kind or a panic)
    \* Spec
    stack,      \* the active generate_from_items calls: the prefix of each
    cur,        \* the struct generate_one is in: <<>> or <<[prefix, ident]>>
    buf,        \* the output written so far, a sequence of pieces of text
    status,     \* "running" | "done" | "panicked"
    seen,       \* history: the declarations and fields read so far
    nItems,     \* items read so far
    nFields,    \* fields read so far
    \* SpecOptional, SpecContainer
    fkind,      \* the kind of the field whose accessors are run
    slot,       \* the field's value
    pre,        \* history: the field's value before the last call
    lastOp,     \* the last accessor called ("init" before any)
    prevOp,     \* history: the accessor called before the last
    ret         \* what the last call returned

vars == <<attrs, kind, stack, cur, buf, status, seen, nItems, nFields,
          fkind, slot, pre, lastOp, prevOp, ret>>

classifyVars == <<attrs, kind>>
genVars == <<stack, cur, buf, status, seen, nItems, nFields>>
runVars == <<fkind, slot, pre, lastOp, prevOp, ret>>

(***************************************************************************)
(* Bounds of the model.                                                    *)
(***************************************************************************)
MaxAttrs == 2       \* attribute records on a field (SpecClassify)
MaxNested == 2      \* entries inside one attribute record (SpecClassify)
MaxInput == 4       \* items and fields read in one generation pass
MaxDepth == 2       \* nesting depth of inline modules
MaxLen == 2         \* length of a container value
MaxVal == 2         \* an Option's inner values are 0..MaxVal; 0 is T::default()

(***************************************************************************)
(* Characters and strings (tuples of characters), ordered as Rust orders   *)
(* str: bytewise, lexicographically.                                       *)
(***************************************************************************)
Quote == "\""

Byte(c) ==
    CASE c = Quote -> 34
      [] c = "1" -> 49
      [] c = "T" -> 84
      [] c = "U" -> 85
      [] c = "r" -> 114

RECURSIVE StrLess(_, _)
StrLess(s, t) ==
    IF t = <<>> THEN FALSE
    ELSE IF s = <<>> THEN TRUE
    ELSE IF Byte(Head(s)) # Byte(Head(t)) THEN Byte(Head(s)) < Byte(Head(t))
    ELSE StrLess(Tail(s), Tail(t))

(***************************************************************************)
(* FieldKind, with the order #[derive(Ord)] gives it: by variant in        *)
(* declaration order, then by the variant's String.                        *)
(***************************************************************************)
FieldKind ==
    <<"Optional", "Repeated", "Int", "Bool", "Bytes", "String", "OneOf", "Enumeration">>

Discriminant(k) == CHOOSE i \in 1..Len(FieldKind) : FieldKind[i] = k

Kind(k, s) == [k |-> k, s |-> s]

Panic(why) == [k |-> "PANIC", s |-> <<why>>]

IsPanic(r) == r.k = "PANIC"

KindLess(a, b) ==
    \/ Discriminant(a.k) < Discriminant(b.k)
    \/ a.k = b.k /\ StrLess(a.s, b.s)

RECURSIVE Insert(_, _)
Insert(x, sorted) ==
    IF sorted = <<>> THEN <<x>>
    ELSE IF KindLess(Head(sorted), x) \/ Head(sorted) = x
         THEN <<Head(sorted)>> \o Insert(x, Tail(sorted))
         ELSE <<x>> \o sorted

RECURSIVE Sort(_)
Sort(ks) == IF ks = <<>> THEN <<>> ELSE Insert(Head(ks), Sort(Tail(ks)))

(***************************************************************************)
(* Annotation entries (syn's NestedMeta).                                  *)
(***************************************************************************)
INT_TYPES == {"int32", "int64", "uint32", "uint64"}

Word(id) == [t |-> "word", id |-> id, lit |-> <<>>]

NameValue(id, lit) == [t |-> "nv", id |-> id, lit |-> lit]

\* A NestedMeta::Literal or a nested Meta::List: neither branch of the filter.
OtherEntry == [t |-> "other", id |-> "", lit |-> <<>>]

Str(c) == <<Quote, c, Quote>>       \* the token text of the literal "c"

IntLit == <<"1">>                   \* the token text of the literal 1

RawStr(c) == <<"r", Quote, c, Quote>>   \* the token text of the literal r"c"

\* value[1..value.len() - 1]: out of range when the text is shorter than 2.
TrimPanics(lit) == Len(lit) < 2

Trim(lit) == SubSeq(lit, 2, Len(lit) - 1)

\* The closure given to filter_map: <<>> for None, <<kind>> for Some(kind).
EntryKind(item) ==
    IF item.t = "word" THEN
        IF item.id = "optional" THEN <<Kind("Optional", <<>>)>>
        ELSE IF item.id = "repeated" THEN <<Kind("Repeated", <<>>)>>
        ELSE IF item.id = "bytes" THEN <<Kind("Bytes", <<>>)>>
        ELSE IF item.id = "string" THEN <<Kind("String", <<>>)>>
        ELSE IF item.id = "bool" THEN <<Kind("Bool", <<>>)>>
        ELSE IF item.id \in INT_TYPES THEN <<Kind("Int", <<>>)>>
        ELSE <<>>
    ELSE IF item.t = "nv" THEN
        IF item.id = "enumeration" THEN <<Kind("Enumeration", Trim(item.lit))>>
        ELSE IF item.id = "oneof" THEN <<Kind("OneOf", Trim(item.lit))>>
        ELSE <<>>
    ELSE <<>>

\* The closure panics on a name-value entry whose literal is too short to trim,
\* whatever its name: the slice is taken before the name is looked at.
EntryPanics(item) == item.t = "nv" /\ TrimPanics(item.lit)

RECURSIVE Collect(_)
Collect(nested) ==
    IF nested = <<>> THEN <<>>
    ELSE EntryKind(Head(nested)) \o Collect(Tail(nested))

\* An attribute record: its path, whether parse_meta gives a Meta::List, and
\* the list's entries.
Attr(path, isList, nested) == [path |-> path, isList |-> isList, nested |-> nested]

RECURSIVE from_attrs(_)
from_attrs(as) ==
    IF as = <<>> THEN Panic("Unknown field kind")
    ELSE LET a == Head(as) IN
         IF a.path = "prost" /\ a.isList THEN
            IF \E i \in 1..Len(a.nested) : EntryPanics(a.nested[i])
            THEN Panic("slice index")
            ELSE LET kinds == Sort(Collect(a.nested)) IN
                 IF kinds # <<>> THEN Head(kinds) ELSE from_attrs(Tail(as))
         ELSE from_attrs(Tail(as))

(***************************************************************************)
(* SpecClassify: from_attrs applied to every bounded annotation list.      *)
(***************************************************************************)
Words == {"optional", "repeated", "bytes", "string", "bool",
          "int32", "int64", "uint32", "uint64", "message"}

Entries ==
    {Word(w) : w \in Words}
    \cup {NameValue(n, l) : n \in {"enumeration", "oneof", "tag"},
                            l \in {Str("T"), Str("U"), IntLit}}
    \cup {NameValue("enumeration", RawStr("T")), OtherEntry}

SeqsUpTo(S, n) == UNION {[1..m -> S] : m \in 0..n}

AttrRecords ==
    {Attr("prost", TRUE, n) : n \in SeqsUpTo(Entries, MaxNested)}
    \cup {Attr("prost", FALSE, <<>>),
          Attr("doc", FALSE, <<>>),
          Attr("serde", TRUE, <<Word("optional")>>)}

InitOther(keep) ==
    /\ "c" \in keep \/ (attrs = <<>> /\ kind = <<>>)
    /\ "g" \in keep \/ (/\ stack = <<>> /\ cur = <<>> /\ buf = <<>>
                        /\ status = "idle" /\ seen = <<>>
                        /\ nItems = 0 /\ nFields = 0)
    /\ "r" \in keep \/ (/\ fkind = "none" /\ slot = <<>> /\ pre = <<>>
                        /\ lastOp = "none" /\ prevOp = "none" /\ ret = <<>>)

InitClassify ==
    /\ attrs \in SeqsUpTo(AttrRecords, MaxAttrs)
    /\ kind = <<>>
    /\ InitOther({"c"})

Classify ==
    /\ kind = <<>>
    /\ kind' = <<from_attrs(attrs)>>
    /\ UNCHANGED <<attrs, genVars, runVars>>

NextClassify == Classify

SpecClassify == InitClassify /\ [][NextClassify]_vars

(***************************************************************************)
(* Declared types (syn's Type), as far as methods looks into them.         *)
(***************************************************************************)
\* A generic argument: a type or something else (a lifetime, a binding).
Arg(isType, text) == [isType |-> isType, text |-> text]

\* text: the type's token text; isPath: Type::Path; last: the identifier of the
\* path's last segment; argk: that segment's PathArguments ("none", "angle",
\* "paren"); args: the angle-bracketed arguments.
Ty(text, isPath, last, argk, args) ==
    [text |-> text, isPath |-> isPath, last |-> last, argk |-> argk, args |-> args]

\* The match that computes unwrapped_type panics (assert!, unreachable!, index
\* out of range) unless it reaches GenericArgument::Type in args.args[0].
UnwrapPanics(ty) ==
    \/ ~ty.isPath
    \/ ty.last # "Option"
    \/ ty.argk # "angle"
    \/ Len(ty.args) = 0
    \/ ~ty.args[1].isType

unwrapped_type(ty) == ty.args[1].text

(***************************************************************************)
(* FieldMethods.  Option<String> fields are <<>> (None) or <<s>> (Some);   *)
(* a String is a tuple: a format string followed by its arguments.         *)
(***************************************************************************)
\* ident: <<"r#", "x">> for the raw identifier r#x, <<"x">> otherwise.
starts_with_raw(ident) == Len(ident) > 1 /\ Head(ident) = "r#"

unesc_name(ident) == IF starts_with_raw(ident) THEN Tail(ident) ELSE ident

new(ty, ident) ==
    [ty |-> ty.text,
     ref_ty |-> <<"Ref">>,
     override_ty |-> <<>>,
     name |-> ident,
     unesc_name |-> unesc_name(ident),
     has |-> FALSE,
     clear |-> <<>>,
     set |-> <<>>,
     get |-> <<>>,
     mt |-> <<"None">>,
     take |-> <<>>]

OptionNone == <<"::std::option::Option::None">>

OptionSome == <<"::std::option::Option::Some(v);">>

OptionalGet(name, ty) ==
    <<"self.{}.as_ref().unwrap_or_else(|| {1}::default_instance())", name, ty>>

OptionalMut(name, ty) ==
    <<"if self.{}.is_none() { self.{0} = ::std::option::Option::Some({1}::default()); } self.{0}.as_mut().unwrap()",
      name, ty>>

OptionalTake(name, ty) ==
    <<"self.{}.take().unwrap_or_else(|| {}::default())", name, ty>>

ReplaceVec(name) ==
    <<"::std::mem::replace(&mut self.{}, ::std::vec::Vec::new())", name>>

ReplaceString(name) ==
    <<"::std::mem::replace(&mut self.{}, ::std::string::String::new())", name>>

TransmuteSet(enum_type) ==
    <<"unsafe { ::std::mem::transmute::<{}, i32>(v) }", enum_type>>

TransmuteGet(enum_type, name) ==
    <<"unsafe { ::std::mem::transmute::<i32, {}>(self.{}) }", enum_type, name>>

\* OptionalMethods with the standard mutator instead of the custom one.
OptionalMethodsStandardMut(result, unwrapped) ==
    [result EXCEPT !.override_ty = <<unwrapped>>,
                   !.has = TRUE,
                   !.clear = <<OptionNone>>,
                   !.set = <<OptionSome>>,
                   !.get = <<OptionalGet(result.name, unwrapped)>>,
                   !.mt = <<"Standard">>,
                   !.take = <<OptionalTake(result.name, unwrapped)>>]

\* The descriptor of each kind, given FieldMethods::new's result.
OptionalMethods(result, unwrapped) ==
    [result EXCEPT !.override_ty = <<unwrapped>>,
                   !.has = TRUE,
                   !.clear = <<OptionNone>>,
                   !.set = <<OptionSome>>,
                   !.get = <<OptionalGet(result.name, unwrapped)>>,
                   !.mt = <<"Custom", OptionalMut(result.name, unwrapped)>>,
                   !.take = <<OptionalTake(result.name, unwrapped)>>]

IntMethods(result) ==
    [result EXCEPT !.ref_ty = <<"Copy">>, !.clear = <<(<<"0">>)>>]

\* BoolMethods with the mutator of the container kinds.
BoolMethodsWithMut(result) ==
    [result EXCEPT !.ref_ty = <<"Copy">>, !.clear = <<(<<"false">>)>>, !.mt = <<"Standard">>]

BoolMethods(result) ==
    [result EXCEPT !.ref_ty = <<"Copy">>, !.clear = <<(<<"false">>)>>]

RepeatedMethods(result) ==
    [result EXCEPT !.mt = <<"Standard">>,
                   !.take = <<ReplaceVec(result.name)>>]

BytesMethods(result) ==
    [result EXCEPT !.ref_ty = <<"Deref", "[u8]">>,
                   !.mt = <<"Standard">>,
                   !.take = <<ReplaceVec(result.name)>>]

StringMethods(result) ==
    [result EXCEPT !.ref_ty = <<"Deref", "str">>,
                   !.mt = <<"Standard">>,
                   !.take = <<ReplaceString(result.name)>>]

EnumerationMethods(result, enum_type) ==
    [result EXCEPT !.override_ty = <<enum_type>>,
                   !.ref_ty = <<"Copy">>,
                   !.clear = <<(<<"0">>)>>,
                   !.set = <<TransmuteSet(enum_type)>>,
                   !.get = <<TransmuteGet(enum_type, result.name)>>]

\* FieldKind::methods: [panic |-> TRUE] when it panics, else d = <<>> for None
\* and d = <<descriptor>> for Some(descriptor).
methods(k, ty, ident) ==
    LET result == new(ty, ident) IN
    IF k.k = "Optional" THEN
        IF UnwrapPanics(ty) THEN [panic |-> TRUE, d |-> <<>>]
        ELSE [panic |-> FALSE, d |-> <<OptionalMethods(result, unwrapped_type(ty))>>]
    ELSE IF k.k = "OneOf" THEN [panic |-> FALSE, d |-> <<>>]
    ELSE [panic |-> FALSE,
          d |-> << CASE k.k = "Int" -> IntMethods(result)
                     [] k.k = "Bool" -> BoolMethods(result)
                     [] k.k = "Repeated" -> RepeatedMethods(result)
                     [] k.k = "Bytes" -> BytesMethods(result)
                     [] k.k = "String" -> StringMethods(result)
                     [] k.k = "Enumeration" -> EnumerationMethods(result, k.s) >>]

(***************************************************************************)
(* Rendering.  A piece of output is a record: what it is (t), the method   *)
(* family (m), the name after the prefix (name), the parameter or return   *)
(* type (ty) and the body (body).                                          *)
(***************************************************************************)
Piece(t, m, name, ty, body) ==
    [t |-> t, m |-> m, name |-> name, ty |-> ty, body |-> body]

Method(m, name, ty, body) == Piece("fn", m, name, ty, body)

\* WriteHas with the presence flag ignored.
WriteHasAlways(d) ==
    <<Method("has_", d.unesc_name, <<"bool">>, <<"self.{}.is_some()", d.name>>)>>

WriteHas(d) ==
    IF d.has
    THEN <<Method("has_", d.unesc_name, <<"bool">>, <<"self.{}.is_some()", d.name>>)>>
    ELSE <<>>

RenderTy(d) == IF d.override_ty # <<>> THEN d.override_ty[1] ELSE d.ty

RenderRefTy(d) ==
    IF d.ref_ty[1] = "Copy" THEN <<RenderTy(d)>>
    ELSE IF d.ref_ty[1] = "Ref" THEN <<"&", RenderTy(d)>>
    ELSE <<"&", d.ref_ty[2]>>

WriteClear(d) ==
    IF d.clear # <<>>
    THEN <<Method("clear_", d.unesc_name, <<>>, <<"self.{} = {}", d.name, d.clear[1]>>)>>
    ELSE <<Method("clear_", d.unesc_name, <<>>, <<"self.{}.clear();", d.name>>)>>

WriteSet(d) ==
    IF d.set # <<>>
    THEN <<Method("set_", d.unesc_name, <<RenderTy(d)>>, <<"self.{} = {};", d.name, d.set[1]>>)>>
    ELSE <<Method("set_", d.unesc_name, <<RenderTy(d)>>, <<"self.{} = v;", d.name>>)>>

WriteGet(d) ==
    IF d.get # <<>>
    THEN <<Method("get_", d.unesc_name, RenderRefTy(d), <<"{}", d.get[1]>>)>>
    ELSE <<Method("get_", d.unesc_name, RenderRefTy(d),
                  <<"{}self.{}", IF d.ref_ty[1] = "Copy" THEN "" ELSE "&", d.name>>)>>

WriteMut(d) ==
    IF d.mt[1] = "Standard"
    THEN <<Method("mut_", d.unesc_name, <<"&mut", RenderTy(d)>>, <<"&mut self.{}", d.name>>)>>
    ELSE IF d.mt[1] = "Custom"
    THEN <<Method("mut_", d.unesc_name, <<"&mut", RenderTy(d)>>, <<"{}", d.mt[2]>>)>>
    ELSE <<>>

WriteTake(d) ==
    IF d.take # <<>>
    THEN <<Method("take_", d.unesc_name, <<RenderTy(d)>>, <<"{}", d.take[1]>>)>>
    ELSE <<>>

\* write_methods with take_* written first.
write_methods_take_first(d) ==
    WriteTake(d) \o WriteHas(d) \o WriteClear(d) \o WriteSet(d) \o WriteGet(d) \o WriteMut(d)

\* FieldMethods::write_methods: the text it appends, in the order written.
write_methods(d) ==
    WriteHas(d) \o WriteClear(d) \o WriteSet(d) \o WriteGet(d) \o WriteMut(d) \o WriteTake(d)

\* generate_new: the two construction methods.
generate_new(name, prefix) ==
    <<Piece("fn", "new_", <<>>, <<prefix, name>>, <<"::std::default::Default::default()">>),
      Piece("fn", "default_instance", <<>>, <<"&'static", prefix, name>>, <<"unimplemented!();">>)>>

ImplHeader(name, prefix) == Piece("impl", "", <<>>, <<prefix, name>>, <<>>)

CloseBrace == Piece("}", "", <<>>, <<>>, <<>>)

(***************************************************************************)
(* Declarations: a struct's attributes, and the fields the pass may read.  *)
(***************************************************************************)
\* An attribute of a struct: its path and its token text, a tuple of tokens.
SAttr(path, tts) == [path |-> path, tts |-> tts]

\* tts.contains(":: prost_derive :: Message"), on tokens.
Marker == <<"::", "prost_derive", "::", "Message">>

Contains(tts, pat) ==
    \E i \in 0..(Len(tts) - Len(pat)) : SubSeq(tts, i + 1, i + Len(pat)) = pat

\* is_message without the test of the attribute's path.
RECURSIVE is_message_any_path(_)
is_message_any_path(as) ==
    IF as = <<>> THEN FALSE
    ELSE IF Contains(Head(as).tts, Marker) THEN TRUE
    ELSE is_message_any_path(Tail(as))

RECURSIVE is_message(_)
is_message(as) ==
    IF as = <<>> THEN FALSE
    ELSE IF Head(as).path = "derive" /\ Contains(Head(as).tts, Marker) THEN TRUE
    ELSE is_message(Tail(as))

DeriveMessage == SAttr("derive", <<"(", "Clone", ",", "::", "prost_derive", "::", "Message", ")">>)

DeriveDebug == SAttr("derive", <<"(", "Clone", ",", "Debug", ")">>)

CfgAttrMessage == SAttr("cfg_attr", <<"(", "x", ",", "derive", "(", "::", "prost_derive", "::", "Message", ")", ")">>)

StructAttrs ==
    {<<DeriveDebug, DeriveMessage>>, <<DeriveDebug>>, <<CfgAttrMessage>>}

StructIdents == {"A"}

ModIdents == {"m", "n"}

\* A field: its identifier (<<>> for an unnamed field), type and attributes.
Field(ident, ty, as) == [ident |-> ident, ty |-> ty, attrs |-> as]

Tag == NameValue("tag", Str("1"))

Prost(nested) == Attr("prost", TRUE, nested)

PlainTy(text) == Ty(text, TRUE, text, "none", <<>>)

OptionTy(text, args) == Ty(text, TRUE, "Option", "angle", args)

Fields ==
    { Field(<<"a">>, OptionTy("Option < T >", <<Arg(TRUE, "T")>>),
            <<Attr("doc", FALSE, <<>>), Prost(<<Word("message"), Word("optional"), Tag>>)>>),
      Field(<<"b">>, PlainTy("Vec < String >"),
            <<Prost(<<Word("string"), Word("repeated"), Tag>>)>>),
      Field(<<"c">>, PlainTy("i32"), <<Prost(<<Word("int32"), Tag>>)>>),
      Field(<<"d">>, PlainTy("bool"), <<Prost(<<Word("bool"), Tag>>)>>),
      Field(<<"e">>, PlainTy("Vec < u8 >"), <<Prost(<<Word("bytes"), Tag>>)>>),
      Field(<<"r#", "f">>, PlainTy("String"), <<Prost(<<Word("string"), Tag>>)>>),
      Field(<<"g">>, PlainTy("i32"),
            <<Prost(<<NameValue("enumeration", Str("T")), Tag>>)>>),
      Field(<<"h">>, OptionTy("Option < U >", <<Arg(TRUE, "U")>>),
            <<Prost(<<NameValue("oneof", Str("U")), Tag>>)>>),
      \* no recognized keyword
      Field(<<"i">>, PlainTy("T"), <<Prost(<<Word("message"), Tag>>)>>),
      \* classified Optional, declared type not an Option
      Field(<<"j">>, PlainTy("T"), <<Prost(<<Word("message"), Word("optional"), Tag>>)>>),
      \* classified Optional, declared type an Option with two arguments
      Field(<<"k">>, OptionTy("Option < T , U >", <<Arg(TRUE, "T"), Arg(TRUE, "U")>>),
            <<Prost(<<Word("message"), Word("optional"), Tag>>)>>),
      \* an unnamed field
      Field(<<>>, PlainTy("i32"), <<Prost(<<Word("int32"), Tag>>)>>) }

(***************************************************************************)
(* Spec: one generation pass.  The items and fields are drawn as the pass  *)
(* reads them; seen records what was read and where its text went.  Every  *)
(* write to the buffer is taken to succeed.                                *)
(***************************************************************************)
Event(e, prefix, ident, sattrs, f, from, to) ==
    [e |-> e, prefix |-> prefix, ident |-> ident, sattrs |-> sattrs,
     f |-> f, from |-> from, to |-> to]

NoField == Field(<<>>, PlainTy(""), <<>>)

Top(s) == s[Len(s)]

\* format!("{}{}::", prefix, m.ident): a prefix is the tuple of its module names.
ModPrefix(prefix, ident) == Append(prefix, ident)

InitGen ==
    /\ stack = <<(<<>>)>>
    /\ cur = <<>>
    /\ buf = <<>>
    /\ status = "running"
    /\ seen = <<>>
    /\ nItems = 0
    /\ nFields = 0
    /\ InitOther({"g"})

AtItem ==
    /\ status = "running"
    /\ stack # <<>>
    /\ cur = <<>>

\* generate_from_items at Item::Struct with is_message: generate_one's header
\* and generate_new.
GenerateOne(ident, sattrs) ==
    /\ AtItem
    /\ nItems + nFields < MaxInput
    /\ is_message(sattrs)
    /\ buf' = buf \o <<ImplHeader(ident, Top(stack))>> \o generate_new(ident, Top(stack))
    /\ cur' = <<[prefix |-> Top(stack), ident |-> ident]>>
    /\ seen' = Append(seen, Event("struct", Top(stack), ident, sattrs, NoField,
                                  Len(buf), Len(buf')))
    /\ nItems' = nItems + 1
    /\ UNCHANGED <<stack, status, nFields, classifyVars, runVars>>

\* generate_from_items at Item::Struct without the marker.
SkipStruct(ident, sattrs) ==
    /\ AtItem
    /\ nItems + nFields < MaxInput
    /\ ~is_message(sattrs)
    /\ seen' = Append(seen, Event("struct", Top(stack), ident, sattrs, NoField,
                                  Len(buf), Len(buf)))
    /\ nItems' = nItems + 1
    /\ UNCHANGED <<stack, cur, buf, status, nFields, classifyVars, runVars>>

\* What one turn of generate_one's iterator chain does with field f: the text it
\* appends, or a panic.
FieldStep(f) ==
    IF f.ident = <<>> THEN [panic |-> FALSE, text |-> <<>>]
    ELSE LET k == from_attrs(f.attrs) IN
         IF IsPanic(k) THEN [panic |-> TRUE, text |-> <<>>]
         ELSE LET m == methods(k, f.ty, f.ident) IN
              IF m.panic THEN [panic |-> TRUE, text |-> <<>>]
              ELSE IF m.d = <<>> THEN [panic |-> FALSE, text |-> <<>>]
              ELSE [panic |-> FALSE, text |-> write_methods(m.d[1])]

\* generate_one at the next field.
GenerateField(f) ==
    /\ status = "running"
    /\ cur # <<>>
    /\ nItems + nFields < MaxInput
    /\ LET r == FieldStep(f) IN
        /\ status' = IF r.panic THEN "panicked" ELSE status
        /\ buf' = buf \o r.text
        /\ seen' = Append(seen, Event("field", cur[1].prefix, cur[1].ident, <<>>, f,
                                      Len(buf), Len(buf')))
    /\ nFields' = nFields + 1
    /\ UNCHANGED <<stack, cur, nItems, classifyVars, runVars>>

\* generate_one after the last field.
EndStruct ==
    /\ status = "running"
    /\ cur # <<>>
    /\ buf' = Append(buf, CloseBrace)
    /\ cur' = <<>>
    /\ seen' = Append(seen, Event("end", cur[1].prefix, cur[1].ident, <<>>, NoField,
                                  Len(buf), Len(buf')))
    /\ UNCHANGED <<stack, status, nItems, nFields, classifyVars, runVars>>

\* generate_from_items at Item::Mod with content: the recursive call.
EnterMod(ident) ==
    /\ AtItem
    /\ nItems + nFields < MaxInput
    /\ Len(stack) <= MaxDepth
    /\ stack' = Append(stack, ModPrefix(Top(stack), ident))
    /\ seen' = Append(seen, Event("mod", Top(stack), ident, <<>>, NoField,
                                  Len(buf), Len(buf)))
    /\ nItems' = nItems + 1
    /\ UNCHANGED <<cur, buf, status, nFields, classifyVars, runVars>>

\* generate_from_items at any other item (a module without content, a function).
SkipItem ==
    /\ AtItem
    /\ nItems + nFields < MaxInput
    /\ seen' = Append(seen, Event("item", Top(stack), "", <<>>, NoField,
                                  Len(buf), Len(buf)))
    /\ nItems' = nItems + 1
    /\ UNCHANGED <<stack, cur, buf, status, nFields, classifyVars, runVars>>

\* generate_from_items after the last item: Ok(()).
Return ==
    /\ AtItem
    /\ stack' = SubSeq(stack, 1, Len(stack) - 1)
    /\ status' = IF Len(stack) = 1 THEN "done" ELSE status
    /\ seen' = Append(seen, Event("ret", Top(stack), "", <<>>, NoField,
                                  Len(buf), Len(buf)))
    /\ UNCHANGED <<cur, buf, nItems, nFields, classifyVars, runVars>>

Next ==
    \/ \E ident \in StructIdents, sattrs \in StructAttrs : GenerateOne(ident, sattrs)
    \/ \E ident \in StructIdents, sattrs \in StructAttrs : SkipStruct(ident, sattrs)
    \/ \E f \in Fields : GenerateField(f)
    \/ EndStruct
    \/ \E ident \in ModIdents : EnterMod(ident)
    \/ SkipItem
    \/ Return

Spec == InitGen /\ [][Next]_vars

(***************************************************************************)
(* The generated accessors, run.  A field of type Option<T> is <<>> (None) *)
(* or <<x>> (Some(x)); a Vec or a String is the tuple of its elements.     *)
(* T::default() is Default.  A call's result is <<"unit">>, <<"bool", b>>, *)
(* <<"val", x>>, <<"ref", to>> (a reference the caller may write through)  *)
(* or <<"panic">>.                                                         *)
(***************************************************************************)
Vals == 0..MaxVal

Default == 0

\* Two distinct elements of a Vec, or characters of a String.
Elems == {"x", "y"}

Containers == SeqsUpTo(Elems, MaxLen)

Outcome(s, r) == [slot |-> s, ret |-> r]

\* self.f.as_ref().unwrap_or_else(|| T::default_instance()): the generated
\* default_instance is unimplemented!(), so the call panics on an absent field;
\* the field is as it was for whoever catches the panic.
as_ref_or_default_instance(s) ==
    IF s # <<>> THEN Outcome(s, <<"val", s[1]>>) ELSE Outcome(s, <<"panic">>)

\* if self.f.is_none() { self.f = Some(T::default()); } self.f.as_mut().unwrap()
init_if_none(s) ==
    Outcome(IF s = <<>> THEN <<Default>> ELSE s, <<"ref", "inner">>)

\* take_or_default reading the value without taking it.
take_or_default_keeps(s) ==
    Outcome(s, <<"val", IF s = <<>> THEN Default ELSE s[1]>>)

\* self.f.take().unwrap_or_else(|| T::default())
take_or_default(s) ==
    Outcome(<<>>, <<"val", IF s = <<>> THEN Default ELSE s[1]>>)

\* mem_replace returning the contents without replacing them.
mem_replace_keeps(s, fresh) == Outcome(s, <<"val", s>>)

\* ::std::mem::replace(&mut self.f, fresh)
mem_replace(s, fresh) == Outcome(fresh, <<"val", s>>)

\* An expression a descriptor slot holds, evaluated on field value s with the
\* parameter v.
EvalExpr(expr, s, v) ==
    CASE expr = OptionNone -> Outcome(s, <<"val", <<>>>>)
      [] expr = OptionSome -> Outcome(s, <<"val", <<v>>>>)
      [] expr[1] = OptionalGet("", "")[1] -> as_ref_or_default_instance(s)
      [] expr[1] = OptionalMut("", "")[1] -> init_if_none(s)
      [] expr[1] = OptionalTake("", "")[1] -> take_or_default(s)
      [] expr[1] = ReplaceVec("")[1] -> mem_replace(s, <<>>)
      [] expr[1] = ReplaceString("")[1] -> mem_replace(s, <<>>)

\* The body of a rendered method, run on field value s with the parameter v.
Exec(body, s, v) ==
    CASE body[1] = "self.{}.is_some()" -> Outcome(s, <<"bool", s # <<>>>>)
      [] body[1] = "self.{} = {}" -> Outcome(EvalExpr(body[3], s, v).ret[2], <<"unit">>)
      [] body[1] = "self.{}.clear();" -> Outcome(<<>>, <<"unit">>)
      [] body[1] = "self.{} = {};" -> Outcome(EvalExpr(body[3], s, v).ret[2], <<"unit">>)
      [] body[1] = "self.{} = v;" -> Outcome(v, <<"unit">>)
      [] body[1] = "{}self.{}" -> Outcome(s, <<"val", s>>)
      [] body[1] = "&mut self.{}" -> Outcome(s, <<"ref", "field">>)
      [] body[1] = "{}" -> EvalExpr(body[2], s, v)

\* The field whose accessors are run, by kind.
RunField(k) ==
    CASE k = "Optional" -> Field(<<"a">>, OptionTy("Option < T >", <<Arg(TRUE, "T")>>), <<>>)
      [] k = "Repeated" -> Field(<<"b">>, PlainTy("Vec < i32 >"), <<>>)
      [] k = "Bytes" -> Field(<<"e">>, PlainTy("Vec < u8 >"), <<>>)
      [] k = "String" -> Field(<<"r#", "f">>, PlainTy("String"), <<>>)

\* The methods write_methods renders for a field of kind k.
Rendered(k) == write_methods(methods(Kind(k, <<>>), RunField(k).ty, RunField(k).ident).d[1])

HasMethod(k, m) == \E i \in 1..Len(Rendered(k)) : Rendered(k)[i].m = m

BodyOf(k, m) ==
    LET i == CHOOSE j \in 1..Len(Rendered(k)) : Rendered(k)[j].m = m
    IN Rendered(k)[i].body

\* The values a field can hold, and the values set_ can be given.
SlotValues(k) == IF k = "Optional" THEN {<<>>} \cup {<<x>> : x \in Vals} ELSE Containers

SetArgs(k) == IF k = "Optional" THEN Vals ELSE Containers

Call(m, v) ==
    /\ LET o == Exec(BodyOf(fkind, m), slot, v) IN
        /\ slot' = o.slot
        /\ ret' = o.ret
    /\ pre' = slot
    /\ lastOp' = m
    /\ prevOp' = lastOp
    /\ UNCHANGED <<fkind, classifyVars, genVars>>

CallHas ==
    /\ HasMethod(fkind, "has_")
    /\ Call("has_", Default)

CallClear ==
    /\ HasMethod(fkind, "clear_")
    /\ Call("clear_", Default)

CallSet(v) ==
    /\ HasMethod(fkind, "set_")
    /\ Call("set_", v)

CallGet ==
    /\ HasMethod(fkind, "get_")
    /\ Call("get_", Default)

CallMut ==
    /\ HasMethod(fkind, "mut_")
    /\ Call("mut_", Default)

CallTake ==
    /\ HasMethod(fkind, "take_")
    /\ Call("take_", Default)

\* The caller writes through the reference the last mut_ returned: into the inner
\* value (a &mut T) or into the whole field.
WriteRef(w) ==
    /\ lastOp \in {"mut_", "write"}
    /\ ret[1] = "ref"
    /\ \/ ret[2] = "inner" /\ w \in {<<x>> : x \in Vals}
       \/ ret[2] = "field" /\ w \in SlotValues(fkind)
    /\ slot' = w
    /\ pre' = slot
    /\ lastOp' = "write"
    /\ prevOp' = lastOp
    /\ UNCHANGED <<fkind, ret, classifyVars, genVars>>

\* The fields of a message are public: it can start with any value.
InitRun(kinds) ==
    /\ fkind \in kinds
    /\ slot \in SlotValues(fkind)
    /\ pre = slot
    /\ lastOp = "init"
    /\ prevOp = "init"
    /\ ret = <<"unit">>
    /\ InitOther({"r"})

InitOptional == InitRun({"Optional"})

NextOptional ==
    \/ CallHas
    \/ CallClear
    \/ \E v \in SetArgs(fkind) : CallSet(v)
    \/ CallGet
    \/ CallMut
    \/ CallTake
    \/ \E w \in SlotValues(fkind) : WriteRef(w)

SpecOptional == InitOptional /\ [][NextOptional]_vars

InitContainer == InitRun({"Repeated", "Bytes", "String"})

NextContainer ==
    \/ CallClear
    \/ \E v \in SetArgs(fkind) : CallSet(v)
    \/ CallGet
    \/ CallMut
    \/ CallTake
    \/ \E w \in SlotValues(fkind) : WriteRef(w)

SpecContainer == InitContainer /\ [][NextContainer]_vars

(***************************************************************************)
(*                               Claims                                    *)
(***************************************************************************)

(***************************************************************************)
(* Classification (SpecClassify).                                          *)
(***************************************************************************)
\* The entries of all the field's prost annotation records, as index pairs.
ProstEntries(as) ==
    UNION {{<<i, j>> : j \in 1..Len(as[i].nested)} :
             i \in {n \in 1..Len(as) : as[n].path = "prost" /\ as[n].isList}}

RecognizedWord(e) ==
    e.t = "word" /\ e.id \in {"optional", "repeated", "bytes", "string", "bool",
                             "int32", "int64", "uint32", "uint64"}

RecognizedKey(e) == e.t = "nv" /\ e.id \in {"enumeration", "oneof"}

QuotedLiteral(e) == Len(e.lit) = 3 /\ e.lit[1] = Quote /\ e.lit[3] = Quote

\* The kind the specification gives a recognized entry.
ExpectedKind(e) ==
    IF e.t = "nv"
    THEN Kind(IF e.id = "enumeration" THEN "Enumeration" ELSE "OneOf", <<e.lit[2]>>)
    ELSE Kind(CASE e.id = "optional" -> "Optional"
                [] e.id = "repeated" -> "Repeated"
                [] e.id = "bytes" -> "Bytes"
                [] e.id = "string" -> "String"
                [] e.id = "bool" -> "Bool"
                [] OTHER -> "Int", <<>>)

\* The candidates of ALL the annotation tokens attached to the field.
AllCandidates(as) ==
    {ExpectedKind(as[p[1]].nested[p[2]]) :
        p \in {q \in ProstEntries(as) :
                 \/ RecognizedWord(as[q[1]].nested[q[2]])
                 \/ RecognizedKey(as[q[1]].nested[q[2]])}}

LeastOf(ks) == CHOOSE k \in ks : \A o \in ks : o = k \/ KindLess(k, o)

\* Every key-value entry of the annotation has a quoted string as its literal.
AllQuoted(as) ==
    \A p \in ProstEntries(as) :
        as[p[1]].nested[p[2]].t = "nv" => QuotedLiteral(as[p[1]].nested[p[2]])

\* C1: classification returns the least candidate, under Optional < Repeated <
\* Int < Bool < Bytes < String < OneOf < Enumeration, of the recognized tokens of
\* ALL the field's annotation tokens, however they are distributed over its prost
\* records. (Stated for annotations whose key-value literals are all quoted
\* strings, so that what refutes it is the distribution over records alone.)
C1_LeastOfAllTokens ==
    (kind # <<>> /\ AllQuoted(attrs) /\ AllCandidates(attrs) # {})
        => kind[1] = LeastOf(AllCandidates(attrs))

\* The recognized entries of the annotation.
RecognizedEntries(as) ==
    {p \in ProstEntries(as) :
        \/ RecognizedWord(as[p[1]].nested[p[2]])
        \/ RecognizedKey(as[p[1]].nested[p[2]])}

\* The annotation holds exactly one recognized entry, a keyword or a key with a
\* quoted literal, and otherwise only unrecognized entries.
OneRecognized(as) ==
    /\ Cardinality(RecognizedEntries(as)) = 1
    /\ \A p \in RecognizedEntries(as) :
          RecognizedKey(as[p[1]].nested[p[2]]) => QuotedLiteral(as[p[1]].nested[p[2]])

TheRecognized(as) ==
    LET p == CHOOSE q \in RecognizedEntries(as) : TRUE IN as[p[1]].nested[p[2]]

\* C2: a field whose annotation holds exactly one recognized entry, plus any
\* number of unrecognized keywords or key-value entries with any literal, is
\* classified as the kind of that entry (quotes removed); the unrecognized
\* entries never make classification fail.
C2_SingleRecognizedEntry ==
    (kind # <<>> /\ OneRecognized(attrs))
        => kind[1] = ExpectedKind(TheRecognized(attrs))

(***************************************************************************)
(* The generated accessors (SpecOptional, SpecContainer).                  *)
(***************************************************************************)
\* C7: take_ on a populated Optional field returns the inner value stored and
\* leaves the field absent; on an absent field it returns the default inner value
\* and leaves the field absent; has_ right after a take_ is false and a second
\* take_ returns the default.
C7_OptionalTake ==
    /\ lastOp = "take_" =>
        /\ slot = <<>>
        /\ ret[1] = "val"
        /\ ret[2] = (IF pre = <<>> THEN Default ELSE pre[1])
    /\ (lastOp = "has_" /\ prevOp = "take_") => (ret[1] = "bool" /\ ret[2] = FALSE)
    /\ (lastOp = "take_" /\ prevOp = "take_") => ret[2] = Default

C7_Witness ==
    /\ fkind = "Optional"
    /\ lastOp = "take_"
    /\ prevOp = "set_"
    /\ pre = <<MaxVal>>
    /\ ret = <<"val", MaxVal>>

\* C8: take_ on a Repeated, Bytes or String field returns exactly the contents
\* the field held before the call and leaves it empty; get_ right after a take_
\* reads back empty.
C8_ContainerTake ==
    /\ lastOp = "take_" => (slot = <<>> /\ ret[1] = "val" /\ ret[2] = pre)
    /\ (lastOp = "get_" /\ prevOp = "take_") => (ret[1] = "val" /\ ret[2] = <<>>)

C8_Witness ==
    /\ fkind \in {"Repeated", "Bytes", "String"}
    /\ lastOp = "take_"
    /\ Len(pre) = MaxLen
    /\ ret[2] = pre
    /\ slot = <<>>

\* C9: mut_ on an Optional field leaves the slot populated: an absent field gets
\* the default inner value, a populated one keeps its value, and a reference is
\* returned; the field is populated after every mut_ and set_ and becomes absent
\* only by clear_ or take_; has_ and get_ do not change the field, and has_
\* tells whether it is populated.
C9_OptionalMut ==
    /\ lastOp = "mut_" =>
        /\ ret[1] = "ref"
        /\ slot = (IF pre = <<>> THEN <<Default>> ELSE pre)
    /\ lastOp \in {"mut_", "set_"} => slot # <<>>
    /\ (slot = <<>> /\ pre # <<>>) => lastOp \in {"clear_", "take_"}
    /\ lastOp \in {"has_", "get_"} => slot = pre
    /\ lastOp = "has_" => (ret[1] = "bool" /\ ret[2] = (slot # <<>>))

C9_Witness ==
    /\ fkind = "Optional"
    /\ lastOp = "mut_"
    /\ prevOp = "take_"
    /\ pre = <<>>
    /\ slot = <<Default>>

(***************************************************************************)
(* The generation pass (Spec).                                             *)
(***************************************************************************)
\* The text written while the pass was at event ev.
Seg(ev) == SubSeq(buf, ev.from + 1, ev.to)

Events(e) == {i \in 1..Len(seen) : seen[i].e = e}

\* The pass panicked at event i.
AbortedAt(i) == status = "panicked" /\ i = Len(seen)

\* The named fields whose turn of the iterator chain completed.
DoneFields == {i \in Events("field") : seen[i].f.ident # <<>> /\ ~AbortedAt(i)}

KindOf(i) == from_attrs(seen[i].f.attrs).k

\* Events i < j are fields of the same struct.
SameStruct(i, j) ==
    /\ i < j
    /\ seen[i].e = "field"
    /\ seen[j].e = "field"
    /\ \A n \in i..j : seen[n].e = "field"

Families(seg) == {seg[j].m : j \in 1..Len(seg)}

Emits(k) ==
    CASE k = "Optional" -> {"has_", "clear_", "set_", "get_", "mut_", "take_"}
      [] k \in {"Repeated", "Bytes", "String"} -> {"clear_", "set_", "get_", "mut_", "take_"}
      [] k \in {"Int", "Bool", "Enumeration"} -> {"clear_", "set_", "get_"}
      [] k = "OneOf" -> {}

\* C3: the accessor methods emitted for a field depend on its kind only:
\* Optional has_, clear_, set_, get_, mut_, take_; Repeated, Bytes, String all
\* but has_; Int, Bool, Enumeration clear_, set_, get_; OneOf none, and the
\* fields after a OneOf field are still rendered.
C3_MethodsByKind ==
    \A i \in DoneFields :
        /\ Families(Seg(seen[i])) = Emits(KindOf(i))
        /\ Len(Seg(seen[i])) = Cardinality(Emits(KindOf(i)))
        /\ \A j \in 1..Len(Seg(seen[i])) : Seg(seen[i])[j].t = "fn"

C3_Witness ==
    \E i, j \in DoneFields :
        /\ SameStruct(i, j)
        /\ KindOf(i) = "OneOf"
        /\ Seg(seen[i]) = <<>>
        /\ KindOf(j) = "Optional"
        /\ Len(Seg(seen[j])) = 6

\* The fields for which methods returned a descriptor.
Described == {i \in DoneFields : KindOf(i) # "OneOf"}

\* C4 as claimed: every descriptor renders to five or six method signatures.
C4_FiveOrSix ==
    \A i \in Described : Len(Seg(seen[i])) \in {5, 6}

\* C4, amended: every descriptor renders to three (Int, Bool, Enumeration), five
\* (Repeated, Bytes, String) or six (Optional) method signatures, and the same
\* field rendered twice gives the same signatures.
C4_ThreeFiveOrSix ==
    /\ \A i \in Described : Len(Seg(seen[i])) \in {3, 5, 6}
    /\ \A i, j \in Described :
          seen[i].f = seen[j].f => Seg(seen[i]) = Seg(seen[j])

C4_Witness ==
    \E i, j \in Described :
        /\ i < j
        /\ seen[i].f = seen[j].f
        /\ KindOf(i) = "Int"
        /\ Len(Seg(seen[j])) = 3

Order == <<"has_", "clear_", "set_", "get_", "mut_", "take_">>

Rank(m) == CHOOSE r \in 1..Len(Order) : Order[r] = m

\* C5: the output is the text of the events in the order read, with nothing in
\* between: for a message struct the impl header, new_, default_instance; then
\* each field's methods, in the order has_, clear_, set_, get_, mut_, take_ and
\* under that field's name; then the closing brace.
C5_OutputOrder ==
    /\ \A i \in 1..Len(seen) :
          seen[i].from = (IF i = 1 THEN 0 ELSE seen[i - 1].to)
    /\ seen # <<>> => seen[Len(seen)].to = Len(buf)
    /\ \A i \in Events("struct") :
          LET seg == Seg(seen[i]) IN
          seg # <<>> =>
            /\ Len(seg) = 3
            /\ seg[1].t = "impl"
            /\ seg[2].m = "new_"
            /\ seg[3].m = "default_instance"
    /\ \A i \in Events("field") :
          LET seg == Seg(seen[i]) IN
          /\ \A j \in 1..Len(seg) :
                seg[j].m \in {Order[r] : r \in 1..Len(Order)} /\ seg[j].name = unesc_name(seen[i].f.ident)
          /\ \A j, n \in 1..Len(seg) : j < n => Rank(seg[j].m) < Rank(seg[n].m)
    /\ \A i \in Events("end") :
          /\ Seg(seen[i]) = <<CloseBrace>>
          /\ \E n \in Events("struct") :
                /\ n < i
                /\ Seg(seen[n]) # <<>>
                /\ \A x \in (n + 1)..(i - 1) : seen[x].e = "field"
    /\ \A i \in Events("field") : i > 1 /\ seen[i - 1].e \in {"struct", "field"}

C5_Witness ==
    /\ status = "done"
    /\ \E i, j \in DoneFields :
        /\ SameStruct(i, j)
        /\ j = i + 1
        /\ Len(Seg(seen[i])) = 6
        /\ Len(Seg(seen[j])) = 5
        /\ seen[j + 1].e = "end"
    /\ \E n \in Events("struct") :
        /\ Len(Seg(seen[n])) = 3
        /\ seen[n + 1].e = "end"

\* The declaration carries the message-derive marker: a derive attribute whose
\* tokens hold `:: prost_derive :: Message`.
CarriesMarker(sattrs) ==
    \E a \in 1..Len(sattrs) :
        /\ sattrs[a].path = "derive"
        /\ \E o \in 1..Len(sattrs[a].tts) :
              /\ o + 3 <= Len(sattrs[a].tts)
              /\ sattrs[a].tts[o] = "::"
              /\ sattrs[a].tts[o + 1] = "prost_derive"
              /\ sattrs[a].tts[o + 2] = "::"
              /\ sattrs[a].tts[o + 3] = "Message"

\* The inline modules open after the first n events, outermost first.
RECURSIVE Path(_)
Path(n) ==
    IF n = 0 THEN <<>>
    ELSE LET p == Path(n - 1) IN
         IF seen[n].e = "mod" THEN p \o <<seen[n].ident>>
         ELSE IF seen[n].e = "ret" /\ p # <<>> THEN SubSeq(p, 1, Len(p) - 1)
         ELSE p

Impls(seg) == {j \in 1..Len(seg) : seg[j].t = "impl"}

\* C6: a struct declaration gets an output block if and only if it carries the
\* message-derive marker: without it nothing is written and its fields are not
\* read; with it exactly one block is written, named by the enclosing module
\* path, outermost first, and the struct's name.
C6_BlockIffMarker ==
    /\ \A i \in Events("struct") :
          LET seg == Seg(seen[i]) IN
          IF CarriesMarker(seen[i].sattrs)
          THEN /\ Cardinality(Impls(seg)) = 1
               /\ seg[1].t = "impl"
               /\ seg[1].ty[1] = Path(i - 1)
               /\ seg[1].ty[2] = seen[i].ident
          ELSE /\ seg = <<>>
               /\ i < Len(seen) => seen[i + 1].e # "field"
    /\ Cardinality(Impls(buf)) =
          Cardinality({i \in Events("struct") : CarriesMarker(seen[i].sattrs)})

C6_Witness ==
    /\ status = "done"
    /\ \E i, j \in Events("struct") :
        /\ ~CarriesMarker(seen[i].sattrs)
        /\ seen[i].sattrs # <<>>
        /\ CarriesMarker(seen[j].sattrs)
        /\ Path(j - 1) = <<"m", "n">>
        /\ Seg(seen[j])[1].ty[1] = <<"m", "n">>

\* The declared type is Option with exactly one argument, a type.
SingleArgOption(ty) ==
    /\ ty.isPath
    /\ ty.last = "Option"
    /\ ty.argk = "angle"
    /\ Len(ty.args) = 1
    /\ ty.args[1].isType

\* The two failures: no recognized keyword in the annotation, or classified
\* Optional with a declared type that is not a single-argument Option.
Unclassifiable(f) == AllCandidates(f.attrs) = {}

MalformedOptional(f) ==
    /\ AllCandidates(f.attrs) # {}
    /\ LeastOf(AllCandidates(f.attrs)).k = "Optional"
    /\ ~SingleArgOption(f.ty)

\* C10: at a named field that is unclassifiable or a malformed optional the pass
\* aborts: the field is the last thing read, and nothing is written for it or
\* after it.
C10_FailuresAbort ==
    \A i \in Events("field") :
        (seen[i].f.ident # <<>> /\ (Unclassifiable(seen[i].f) \/ MalformedOptional(seen[i].f)))
            => /\ status = "panicked"
               /\ i = Len(seen)
               /\ seen[i].to = seen[i].from
               /\ Len(buf) = seen[i].from

====
